---- MODULE Spec2Model ----
(***************************************************************************)
(* Workflow orchestration core of intelligent-ops-agent.                   *)
(*                                                                         *)
(* Two graphs are modelled, one run of one graph per behaviour:            *)
(*   machine = "agent"    IntelligentOpsAgent (agents/intelligent_ops_     *)
(*                        agent.py), state record `state` (ChatState)      *)
(*   machine = "workflow" OpsWorkflow (langgraph_workflow/*.py), state     *)
(*                        record `wf` (OpsState)                           *)
(* A graph node is one action: the whole handler, followed by the          *)
(* conditional edge function that picks the next node.  The reasoning      *)
(* oracles (router, analyzer, diagnoser, planner, report writer) are       *)
(* nondeterministic: each call either returns a result drawn from a small  *)
(* set or raises.                                                          *)
(***************************************************************************)
EXTENDS Integers, Sequences, FiniteSets, TLC

VARIABLES machine, node, steps, outcome, state, cfg, pending, wf, last, hist,
          call, system

vars == <<machine, node, steps, outcome, state, cfg, pending, wf, last, hist,
          call, system>>

(***************************************************************************)
(* Bounds                                                                  *)
(***************************************************************************)
\* step ceiling of a run of the agent graph (recursion limit); steps counts
\* the node executions of the whole run, resumed parts included
RecursionLimit == 8
\* max_iterations argument of OpsWorkflow.run / stream_run
MaxIterations == 12

(***************************************************************************)
(* Texts are sequences of characters, so that lower(), strip() and the     *)
(* substring test `x in y` are computed as Python computes them.           *)
(***************************************************************************)
T_empty == <<>>
T_rejected == <<"r","e","j","e","c","t","e","d">>
T_Rejected == <<"R","e","j","e","c","t","e","d">>
T_approved == <<"a","p","p","r","o","v","e","d">>
T_modified == <<"m","o","d","i","f","i","e","d">>
T_deny == <<"d","e","n","y">>
T_no == <<"n","o">>
T_cancel == <<"c","a","n","c","e","l">>
T_change == <<"c","h","a","n","g","e">>
T_update == <<"u","p","d","a","t","e">>
T_no_wait == <<"n","o",","," ","w","a","i","t">>
T_repr == <<"{","}">>
T_prefix == <<":"," ">>

T_restart == <<"r","e","s","t","a","r","t">>
T_reboot == <<"r","e","b","o","o","t">>
T_delete == <<"d","e","l","e","t","e">>
T_remove == <<"r","e","m","o","v","e">>
T_kill == <<"k","i","l","l">>
T_stop == <<"s","t","o","p">>
T_restart_service == <<"r","e","s","t","a","r","t","_","s","e","r","v","i","c","e">>
T_scale_up == <<"s","c","a","l","e","_","u","p">>
T_check == <<"c","h","e","c","k">>
T_add_node == <<"a","d","d"," ","n","o","d","e">>
T_read_logs == <<"r","e","a","d"," ","l","o","g","s">>
T_Delete_tmp == <<"D","e","l","e","t","e"," ","t","m","p">>
T_ls == <<"l","s">>

UpperToLower == [c \in {"R", "D", "A", "M", "N"} |->
                   CASE c = "R" -> "r" [] c = "D" -> "d" [] c = "A" -> "a"
                     [] c = "M" -> "m" [] c = "N" -> "n"]

\* str.lower()
Lower(t) == [i \in 1..Len(t) |->
               IF t[i] \in DOMAIN UpperToLower THEN UpperToLower[t[i]] ELSE t[i]]

\* `p in t` for strings
IsSubstr(p, t) == \E i \in 0..(Len(t) - Len(p)) : SubSeq(t, i + 1, i + Len(p)) = p

\* `t.strip()` is non-empty
NonBlank(t) == \E i \in 1..Len(t) : t[i] # " "

(***************************************************************************)
(* Action plans (the action-planner oracle's output, as committed to       *)
(* state["action_plan"] by _plan_actions_node)                             *)
(***************************************************************************)
Step(id, atype, desc, cmd, risk) ==
    [step_id |-> id, action_type |-> atype, description |-> desc,
     command |-> cmd, risk_level |-> risk]

StepCheck == Step("check", T_check, T_read_logs, T_ls, "low")
StepRestart == Step("restart", T_restart_service, T_read_logs, T_ls, "medium")
StepScale == Step("scale", T_scale_up, T_add_node, T_ls, "high")
StepCleanup == Step("cleanup", T_check, T_Delete_tmp, T_ls, "medium")

Plan(id, ra, ar, ss) ==
    [plan_id |-> id, risk_assessment |-> ra, approval_required |-> ar, steps |-> ss]

NoPlan == Plan("none", "none", FALSE, <<>>)

\* the plans the planner oracle chooses from
Plans ==
    {Plan("safe", "low", FALSE, <<StepCheck>>),
     Plan("empty", "low", FALSE, <<>>),
     Plan("restart", "low", FALSE, <<StepCheck, StepRestart>>),
     Plan("cleanup", "low", FALSE, <<StepCleanup>>),
     Plan("step_risk", "low", FALSE, <<StepScale>>),
     Plan("plan_risk", "high", FALSE, <<StepCheck>>),
     Plan("flagged", "low", TRUE, <<StepCheck>>)}

NoExecution == [status |-> "none", executed_steps |-> <<>>]

(***************************************************************************)
(* ChatState.  `messages` is kept as the summary of the message list that  *)
(* the code observes:                                                      *)
(*   empty     the list is empty                                           *)
(*   hasInput  some message is one _get_latest_user_or_system_input        *)
(*             returns (a human message with content, or a redirect        *)
(*             message)                                                    *)
(*   route     the stage _route_condition reads from the most recent       *)
(*             routing-analysis message naming a stage ("none": no such    *)
(*             message)                                                    *)
(*   lastKind  kind of the last message                                    *)
(*   hasAI     some message has type "ai"                                  *)
(*   len       the length of the list; it is on record in the runs of      *)
(*             SpecCounted only and -1 (not counted) in all others         *)
(***************************************************************************)
NoMessages == [empty |-> TRUE, hasInput |-> FALSE, route |-> "none",
               lastKind |-> "none", hasAI |-> FALSE, len |-> -1]

\* the length of `messages + [message]`
Longer(len) == IF len < 0 THEN len ELSE len + 1

\* the stage names _route_condition looks for in a routing message
RoutableTasks == {"collect_info", "execute_actions", "plan_actions",
                  "diagnose_issue", "process_alert", "generate_report"}

\* messages + [HumanMessage(content=text)]
AddHumanMessage(st, kind, text) ==
    [st EXCEPT !.messages =
        [empty |-> FALSE,
         hasInput |-> @.hasInput \/ text # <<>>,
         route |-> @.route,
         lastKind |-> kind,
         hasAI |-> @.hasAI,
         len |-> Longer(@.len)]]

\* variant of _add_ai_message_to_state that returns the new message alone
\* instead of appending it
AddAIMessage_replacing(st, kind, task) ==
    [st EXCEPT !.messages =
        [empty |-> FALSE,
         hasInput |-> @.hasInput \/ kind = "redirect",
         route |-> IF kind = "routing" /\ task \in RoutableTasks THEN task ELSE @.route,
         lastKind |-> kind,
         hasAI |-> TRUE,
         len |-> IF @.len < 0 THEN @.len ELSE 1]]

\* _add_ai_message_to_state; task is the stage a routing message names
AddAIMessage(st, kind, task) ==
    [st EXCEPT !.messages =
        [empty |-> FALSE,
         hasInput |-> @.hasInput \/ kind = "redirect",
         route |-> IF kind = "routing" /\ task \in RoutableTasks THEN task ELSE @.route,
         lastKind |-> kind,
         hasAI |-> TRUE,
         len |-> Longer(@.len)]]

\* _create_error_state, and the inline `errors + [...]` of the other handlers
CreateErrorState(st, name) == [st EXCEPT !.errors = Append(@, name)]

\* what a caller passes to the stage entry points: an alert, symptoms; the
\* context starts empty and is filled by the router's extraction
InitialChatStates ==
    {[messages |-> m, alert_info |-> a, symptoms |-> s, context |-> {},
      analysis_result |-> FALSE, diagnostic_result |-> "none",
      action_plan |-> NoPlan, execution_result |-> NoExecution,
      report |-> "none", errors |-> <<>>] :
        m \in {NoMessages,
               [empty |-> FALSE, hasInput |-> TRUE, route |-> "none",
                lastKind |-> "input", hasAI |-> FALSE, len |-> -1]},
        a \in BOOLEAN, s \in {{}, {"s1"}}}

\* a placeholder for the record of the graph that is not running
IdleChatState ==
    [messages |-> NoMessages, alert_info |-> FALSE, symptoms |-> {},
     context |-> {}, analysis_result |-> FALSE, diagnostic_result |-> "none",
     action_plan |-> NoPlan, execution_result |-> NoExecution,
     report |-> "none", errors |-> <<>>]

(***************************************************************************)
(* Human-Interaction Gate.  A resume payload is a string, a flat dict with *)
(* one key, a dict nested one level ({id: {key: text}}) or None.           *)
(***************************************************************************)
Payload(t, k, v) == [t |-> t, k |-> k, v |-> v]

\* the payloads an operator resumes a suspended run with
Payloads ==
    {Payload("str", "", v) : v \in {T_empty, T_rejected, T_Rejected, T_approved, T_modified,
                                    T_no_wait}}
    \cup {Payload("dict", "response", T_rejected), Payload("none", "", T_empty)}

\* the common shape of the three request_* functions: direct keys, then the
\* items loop (nested dict / non-blank string value), then the fallback
NormalizePayload(p, keys, dictFallback, noneFallback) ==
    CASE p.t = "str" -> p.v
      [] p.t = "dict" ->
            IF p.k \in keys /\ p.v # <<>> THEN p.v
            ELSE IF NonBlank(p.v) THEN p.v
            ELSE dictFallback
      [] p.t = "nested" ->
            IF p.k \in keys /\ p.v # <<>> THEN p.v ELSE dictFallback
      [] OTHER -> noneFallback

request_operator_input(p) ==
    NormalizePayload(p, {"response", "input", "value", "content"}, T_repr, T_empty)

request_execution_approval(p) ==
    NormalizePayload(p, {"decision", "response", "input", "value"}, T_rejected, T_rejected)

request_clarification(p) ==
    NormalizePayload(p, {"clarification", "response", "input", "value"}, T_empty, T_empty)

(***************************************************************************)
(* Handler results.                                                        *)
(*   tag  "ok"         the handler returned st                             *)
(*        "interrupt"  a suspension signal left the handler (request req)  *)
(*        "raise"      another exception left the handler                  *)
(*   used       the handler consumed the pending resume value              *)
(*   swallowed  a suspension signal was caught and turned into an error    *)
(*   failed     an oracle raised an exception that is no suspension signal *)
(*   diagnoses  invocations of the diagnoser made by the handler           *)
(*   decision   execute_actions' local approval_decision (the normalised   *)
(*              reply to its approval request; empty when none was read)   *)
(*   low        the routing decision the router committed had a confidence *)
(*              below 0.2                                                  *)
(***************************************************************************)
Result(tag, st, req, used, swallowed, failed, diagnoses) ==
    [tag |-> tag, st |-> st, req |-> req, used |-> used,
     swallowed |-> swallowed, failed |-> failed, diagnoses |-> diagnoses,
     decision |-> T_empty, low |-> FALSE]

Decided(r, approval_decision) == [r EXCEPT !.decision = approval_decision]

Ok(st, used, n) == Result("ok", st, "none", used, FALSE, FALSE, n)
Caught(st, used, n) == Result("ok", st, "none", used, FALSE, TRUE, n)
Suspend(st, req, n) == Result("interrupt", st, req, FALSE, FALSE, FALSE, n)
Raised(st, used, n) == Result("raise", st, "none", used, FALSE, TRUE, n)

\* An oracle call raises either an exception the handlers treat as an
\* ordinary failure, or one whose type name or text contains "interrupt"
\* (e.g. "connection interrupted") although it is no suspension signal.
OracleFailures == {"raise", "raise_interrupt_text"}

(***************************************************************************)
(* Router node                                                             *)
(***************************************************************************)
NextTasks == RoutableTasks \cup {"finalize"}

\* self.intelligent_router.forward as the router node uses it: an object
\* with next_task, confidence and the extracted_* fields, or an exception.
\* (IntelligentRouter.forward of dspy_modules takes current_state only, so
\* called with user_input it raises TypeError: the "raise" outcome.)
\* low: confidence < 0.2.
RouterDecision(tag, t, low, a, s, c) ==
    [tag |-> tag, next_task |-> t, low |-> low, extracted_alerts |-> a,
     extracted_symptoms |-> s, extracted_context |-> c]

\* what one decision extracts: nothing, an alert, a symptom or context
Extractions ==
    {[alert |-> FALSE, symptoms |-> {}, context |-> {}],
     [alert |-> TRUE, symptoms |-> {}, context |-> {}],
     [alert |-> FALSE, symptoms |-> {"s1"}, context |-> {}],
     [alert |-> FALSE, symptoms |-> {}, context |-> {"env"}]}

RouterOutcomes ==
    {RouterDecision("ok", t, low, x.alert, x.symptoms, x.context) :
        t \in NextTasks, low \in BOOLEAN, x \in Extractions}
    \cup {RouterDecision(f, "none", FALSE, FALSE, {}, {}) : f \in OracleFailures}

\* _apply_extracted_info
ApplyExtractedInfo(st, d) ==
    [st EXCEPT !.alert_info = @ \/ d.extracted_alerts,
               !.symptoms = IF d.extracted_symptoms # {} THEN @ \cup d.extracted_symptoms ELSE @,
               !.context = IF d.extracted_context # {} THEN @ \cup d.extracted_context ELSE @]

\* lines 446-453: apply the extraction, append the routing-analysis message
RouteCommit(st, d) ==
    AddAIMessage(ApplyExtractedInfo(st, d), "routing", d.next_task)

\* the outcome of one forward() call inside the router's try block; st0 is
\* the value of the local `state` the except clause sees
RouteOnDecision(st0, st, d, used) ==
    CASE d.tag = "ok" -> [Ok(RouteCommit(st, d), used, 0) EXCEPT !.low = d.low]
      [] d.tag = "raise" -> Caught(CreateErrorState(st0, "intelligent_route error"), used, 0)
      [] OTHER -> Raised(st0, used, 0)

\* _intelligent_route_node; res is the sequence of resume values the engine
\* holds for this node
IntelligentRouteResults(st, res) ==
    IF ~st.messages.hasInput
    THEN {Ok(CreateErrorState(st, "intelligent_route error"), FALSE, 0)}
    ELSE UNION {
        IF d1.tag = "ok" /\ d1.low
        THEN IF res = <<>>
             THEN {Suspend(st, "clarification", 0)}
             ELSE LET clarification == request_clarification(res[1]) IN
                  IF NonBlank(clarification)
                  THEN {RouteOnDecision(st,
                                        AddHumanMessage(st, "clarification", clarification),
                                        d2, TRUE) : d2 \in RouterOutcomes}
                  ELSE {RouteOnDecision(st, st, d1, TRUE)}
        ELSE {RouteOnDecision(st, st, d1, FALSE)}
      : d1 \in RouterOutcomes}

\* _redirect_to_router: append the redirect message, call the router node
RedirectToRouter(st, res) ==
    IntelligentRouteResults(AddAIMessage(st, "redirect", "none"), res)

\* `except Exception` of process_alert, plan_actions and collect_info: whatever
\* leaves the try block, a suspension signal included, becomes an errors entry
\* of the handler's local state st0
CatchAll(rs, st0, name) ==
    {IF r.tag = "ok" THEN r
     ELSE Result("ok", CreateErrorState(st0, name), "none", r.used,
                 r.tag = "interrupt", r.tag = "raise" \/ r.failed, r.diagnoses)
       : r \in rs}

\* variant of the data-driven routing that sends an alert without analysis
\* to process_alert before it looks for a missing diagnosis
DataDrivenRoute_analysis_before_diagnosis(st) ==
    IF st.action_plan # NoPlan /\ st.execution_result = NoExecution THEN "execute_actions"
    ELSE IF st.diagnostic_result # "none" /\ st.action_plan = NoPlan THEN "plan_actions"
    ELSE IF st.alert_info /\ ~st.analysis_result THEN "process_alert"
    ELSE IF (st.symptoms # {} \/ st.alert_info) /\ st.diagnostic_result = "none" THEN "diagnose_issue"
    ELSE "diagnose_issue"

\* variant of the data-driven routing that looks at the alert first
DataDrivenRoute_alert_first(st) ==
    IF st.alert_info /\ ~st.analysis_result THEN "process_alert"
    ELSE IF st.action_plan # NoPlan /\ st.execution_result = NoExecution THEN "execute_actions"
    ELSE IF st.diagnostic_result # "none" /\ st.action_plan = NoPlan THEN "plan_actions"
    ELSE "diagnose_issue"

\* _route_condition, lines 1371-1381: the routing based on the state's data
DataDrivenRoute(st) ==
    IF st.action_plan # NoPlan /\ st.execution_result = NoExecution THEN "execute_actions"
    ELSE IF st.diagnostic_result # "none" /\ st.action_plan = NoPlan THEN "plan_actions"
    ELSE IF (st.symptoms # {} \/ st.alert_info) /\ st.diagnostic_result = "none" THEN "diagnose_issue"
    ELSE IF st.alert_info /\ ~st.analysis_result THEN "process_alert"
    ELSE "diagnose_issue"

\* _route_condition
RouteCondition(st) ==
    IF st.messages.route # "none" THEN st.messages.route
    ELSE DataDrivenRoute(st)

(***************************************************************************)
(* Stage handlers.  cf is the AgentConfig.                                 *)
(***************************************************************************)
\* the oracle result, or an exception
OracleOutcomes == {"ok"} \cup OracleFailures

\* _process_alert_node
ProcessAlertAnalyze(st, used) ==
    {IF a = "ok"
     THEN Ok(AddAIMessage([st EXCEPT !.analysis_result = TRUE], "summary", "none"),
             used, 0)
     ELSE Caught(CreateErrorState(st, "Alert processing error"), used, 0)
       : a \in OracleOutcomes}

ProcessAlertResults(st, res) ==
    IF st.alert_info THEN ProcessAlertAnalyze(st, FALSE)
    ELSE IF ~st.messages.hasInput
    THEN CatchAll(RedirectToRouter(st, res), st, "Alert processing error")
    ELSE UNION {
        IF d.tag # "ok"
        THEN {Caught(CreateErrorState(st, "Alert processing error"), FALSE, 0)}
        ELSE UNION {
            IF intent = "alert_processing"
            THEN LET updated == ApplyExtractedInfo(st, d) IN
                 IF updated.alert_info
                 THEN ProcessAlertAnalyze(updated, FALSE)
                 ELSE CatchAll(RedirectToRouter(updated, res), st, "Alert processing error")
            ELSE CatchAll(RedirectToRouter(st, res), st, "Alert processing error")
          : intent \in {"alert_processing", "other"}}
      : d \in RouterOutcomes}

\* the diagnoser's result: its confidence is below 0.7 ("low") or not
DiagnoserOutcomes == {"low", "high"} \cup OracleFailures

DiagnoseCommit(st, conf, used, n) ==
    Ok(AddAIMessage([st EXCEPT !.diagnostic_result = conf], "summary", "none"), used, n)

DiagnoseOnFailure(st, g, used, n) ==
    IF g = "raise" THEN Caught(CreateErrorState(st, "diagnose_issue error"), used, n)
    ELSE Raised(st, used, n)

\* _diagnose_issue_node
DiagnoseIssueResults(st, res) ==
    IF st.symptoms = {} /\ st.context = {} /\ ~st.alert_info
    THEN RedirectToRouter(st, res)
    ELSE UNION {
        IF g1 \in OracleFailures THEN {DiagnoseOnFailure(st, g1, FALSE, 1)}
        ELSE IF g1 = "high" THEN {DiagnoseCommit(st, g1, FALSE, 1)}
        ELSE LET asked == AddAIMessage(st, "request", "none") IN
             IF res = <<>> THEN {Suspend(st, "operator_input", 1)}
             ELSE LET additional_info == request_operator_input(res[1]) IN
                  IF NonBlank(additional_info)
                  THEN LET informed == AddHumanMessage(asked, "supplement", T_prefix \o additional_info) IN
                       {IF g2 \in OracleFailures
                        THEN DiagnoseOnFailure(informed, g2, TRUE, 2)
                        ELSE DiagnoseCommit(AddAIMessage(informed, "reanalysis", "none"),
                                            g2, TRUE, 2)
                          : g2 \in DiagnoserOutcomes}
                  ELSE {DiagnoseCommit(asked, g1, TRUE, 1)}
      : g1 \in DiagnoserOutcomes}

\* the planner's result (an ActionPlan), or an exception
PlannerOutcomes ==
    {[tag |-> "ok", plan |-> p] : p \in Plans}
    \cup {[tag |-> f, plan |-> NoPlan] : f \in OracleFailures}

\* variant of _plan_actions_node that plans without looking at
\* diagnostic_result
PlanActionsResults_unguarded(st, res) ==
    {IF p.tag # "ok"
     THEN Caught(CreateErrorState(st, "Action planning error"), FALSE, 0)
     ELSE Ok(AddAIMessage([st EXCEPT !.action_plan = p.plan], "summary", "none"),
             FALSE, 0)
       : p \in PlannerOutcomes}

\* _plan_actions_node
PlanActionsResults(st, res) ==
    IF st.diagnostic_result = "none"
    THEN CatchAll(RedirectToRouter(st, res), st, "Action planning error")
    ELSE {IF p.tag # "ok"
          THEN Caught(CreateErrorState(st, "Action planning error"), FALSE, 0)
          ELSE Ok(AddAIMessage([st EXCEPT !.action_plan = p.plan], "summary", "none"),
                  FALSE, 0)
            : p \in PlannerOutcomes}

high_risk_actions == {T_restart, T_reboot, T_delete, T_remove, T_kill, T_stop}

\* variant of _requires_execution_approval without the scan of the steps
RequiresExecutionApproval_plan_level(plan) ==
    IF plan = NoPlan THEN FALSE
    ELSE IF plan.risk_assessment \in {"high", "critical"} THEN TRUE
    ELSE plan.approval_required

\* _requires_execution_approval
RequiresExecutionApproval(plan) ==
    IF plan = NoPlan THEN FALSE
    ELSE IF plan.risk_assessment \in {"high", "critical"} THEN TRUE
    ELSE IF plan.approval_required THEN TRUE
    ELSE \E i \in 1..Len(plan.steps) : \E v \in high_risk_actions :
            \/ IsSubstr(v, Lower(plan.steps[i].action_type))
            \/ IsSubstr(v, Lower(plan.steps[i].description))
            \/ IsSubstr(v, Lower(plan.steps[i].command))

ExecutionResult(status, executed) == [status |-> status, executed_steps |-> executed]

\* lines 936-980: run every step of the plan, commit the execution result
RunPlan(st, plan, used) ==
    Ok(AddAIMessage(
         [st EXCEPT !.execution_result =
            ExecutionResult("success", [i \in 1..Len(plan.steps) |-> plan.steps[i].step_id])],
         "summary", "none"),
       used, 0)

\* lines 919-980: the auto_execution switch, then the execution loop
ExecuteAfterApproval(st, plan, cf, used) ==
    IF ~cf.auto_execution /\ ~RequiresExecutionApproval(plan)
    THEN Ok(AddAIMessage(
              [st EXCEPT !.execution_result = ExecutionResult("manual_approval_required", <<>>)],
              "summary", "none"),
            used, 0)
    ELSE RunPlan(st, plan, used)

\* _execute_actions_node
ExecuteActionsResults(st, res, cf) ==
    IF st.action_plan = NoPlan THEN RedirectToRouter(st, res)
    ELSE IF RequiresExecutionApproval(st.action_plan)
    THEN IF res = <<>> THEN {Suspend(st, "execution_approval", 0)}
         ELSE LET approval_decision == request_execution_approval(res[1])
                  answered == AddHumanMessage(st, "approval", T_prefix \o approval_decision)
              IN  IF Lower(approval_decision) \in {T_rejected, T_deny, T_no, T_cancel}
                  THEN {Decided(Ok(AddAIMessage(
                                     [answered EXCEPT !.execution_result =
                                        ExecutionResult("rejected_by_operator", <<>>)],
                                     "summary", "none"),
                                   TRUE, 0), approval_decision)}
                  ELSE IF Lower(approval_decision) \in {T_modified, T_change, T_update}
                  THEN {Decided(Ok(AddAIMessage(
                                     [answered EXCEPT !.execution_result =
                                        ExecutionResult("modification_requested", <<>>)],
                                     "summary", "none"),
                                   TRUE, 0), approval_decision)}
                  ELSE {Decided(ExecuteAfterApproval(answered, st.action_plan, cf, TRUE),
                                approval_decision)}
    ELSE {ExecuteAfterApproval(st, st.action_plan, cf, FALSE)}

\* _generate_report_node
GenerateReportResults(st, cf) ==
    IF ~cf.enable_reporting
    THEN {Ok(AddAIMessage([st EXCEPT !.report = "disabled"], "summary", "none"), FALSE, 0)}
    ELSE {IF r = "ok"
          THEN Ok(AddAIMessage([st EXCEPT !.report = "generated"], "summary", "none"),
                  FALSE, 0)
          ELSE Caught(AddAIMessage([st EXCEPT !.report = "generated_fallback"],
                                   "summary", "none"),
                      FALSE, 0)
            : r \in OracleOutcomes}

\* _collect_info_node
CollectInfoResults(st, res) ==
    CatchAll(IF res = <<>> THEN {Suspend(st, "operator_input", 0)}
             ELSE {Ok(AddHumanMessage(st, "input", request_operator_input(res[1])), TRUE, 0)},
             st, "collect_info error")

\* _finalize_node: the reply of the chat mode carries the status line
\* ("success" / "completed with errors"); otherwise the state is returned
\* as it is
FinalizeResults(st) ==
    {Ok(IF ~st.messages.empty /\ ~st.messages.hasAI
        THEN AddAIMessage(st, IF st.errors = <<>> THEN "final_success"
                              ELSE "final_completed_with_errors", "none")
        ELSE st,
        FALSE, 0)}

\* _error_handler_node
ErrorHandlerResults(st) ==
    {Ok(IF ~st.messages.empty THEN AddAIMessage(st, "error", "none") ELSE st, FALSE, 0)}

(***************************************************************************)
(* Conditional edges of the agent graph (_build_agent_graph).  Each edge   *)
(* function returns a key; the path map of the node maps keys to nodes.    *)
(***************************************************************************)
\* _has_backjump_request
HasBackjumpRequest(st) == st.messages.lastKind = "redirect"

\* _process_alert_condition
ProcessAlertCondition(st) ==
    IF st.errors # <<>> THEN "error"
    ELSE IF st.alert_info THEN "diagnose_issue"
    ELSE "collect_info"

\* _diagnose_issue_condition
DiagnoseIssueCondition(st) ==
    IF st.errors # <<>> THEN "error"
    ELSE IF ~st.alert_info /\ st.symptoms = {} THEN "collect_info"
    ELSE IF st.diagnostic_result # "none" THEN "plan_actions"
    ELSE "collect_info"

\* _plan_actions_condition
PlanActionsCondition(st) ==
    IF st.errors # <<>> THEN "error"
    ELSE IF st.diagnostic_result = "none" THEN "collect_info"
    ELSE IF st.action_plan # NoPlan THEN "execute_actions"
    ELSE "collect_info"

\* _execute_actions_condition
ExecuteActionsCondition(st, cf) ==
    IF st.errors # <<>> THEN "error"
    ELSE IF HasBackjumpRequest(st) THEN "intelligent_route"
    ELSE IF st.execution_result # NoExecution /\ cf.enable_reporting THEN "generate_report"
    ELSE IF st.execution_result # NoExecution THEN "finalize"
    ELSE "intelligent_route"

\* _generate_report_condition
GenerateReportCondition(st) ==
    IF st.errors # <<>> THEN "error"
    ELSE IF HasBackjumpRequest(st) THEN "intelligent_route"
    ELSE IF st.report # "none" THEN "finalize"
    ELSE "intelligent_route"

\* _error_recovery_condition
ErrorRecoveryCondition(st) == "finalize"

\* the key the edge function of node n returns in state st
EdgeKey(n, st, cf) ==
    CASE n = "initialize" -> "intelligent_route"
      [] n = "intelligent_route" -> RouteCondition(st)
      [] n = "collect_info" -> "intelligent_route"
      [] n = "process_alert" -> ProcessAlertCondition(st)
      [] n = "diagnose_issue" -> DiagnoseIssueCondition(st)
      [] n = "plan_actions" -> PlanActionsCondition(st)
      [] n = "execute_actions" -> ExecuteActionsCondition(st, cf)
      [] n = "generate_report" -> GenerateReportCondition(st)
      [] n = "error_handler" -> ErrorRecoveryCondition(st)
      [] n = "finalize" -> "END"

Same(keys) == [k \in keys |-> k]

\* the path maps given to add_conditional_edges / add_edge
AgentPathMap(n) ==
    CASE n = "initialize" -> Same({"intelligent_route"})
      [] n = "intelligent_route" ->
            Same({"process_alert", "diagnose_issue", "plan_actions", "execute_actions",
                  "generate_report", "collect_info", "finalize"})
            @@ ("error" :> "error_handler")
      [] n = "collect_info" -> Same({"intelligent_route"})
      [] n = "process_alert" ->
            Same({"diagnose_issue", "collect_info", "finalize"}) @@ ("error" :> "error_handler")
      [] n = "diagnose_issue" ->
            Same({"plan_actions", "collect_info", "finalize"}) @@ ("error" :> "error_handler")
      [] n = "plan_actions" ->
            Same({"execute_actions", "collect_info", "finalize"}) @@ ("error" :> "error_handler")
      [] n = "execute_actions" ->
            Same({"finalize", "collect_info"}) @@ ("error" :> "error_handler")
      [] n = "generate_report" ->
            Same({"finalize", "collect_info"}) @@ ("error" :> "error_handler")
      [] n = "error_handler" ->
            Same({"finalize", "END"}) @@ ("retry" :> "intelligent_route")
      [] n = "finalize" -> Same({"END"})

(***************************************************************************)
(* The engine.  outcome:                                                   *)
(*   "running"          a node is due                                      *)
(*   "suspended"        a suspension signal reached the engine; the run    *)
(*                      waits for a resume payload                         *)
(*   "breakpoint"       the run is paused at the static breakpoint before  *)
(*                      execute_actions and waits to be continued          *)
(*   "end"              END was reached                                    *)
(*   "recursion_error"  the step ceiling was hit (GraphRecursionError)     *)
(*   "routing_error"    an edge function returned a key that is not in the *)
(*                      node's path map (KeyError)                         *)
(*   "crashed"          an exception left a node                           *)
(***************************************************************************)
\* AgentConfig, and whether compile() was given a checkpointer (which sets
\* the static breakpoint interrupt_before = ["execute_actions"]); the runs
\* with a checkpointer use the default AgentConfig
AgentConfigs ==
    {c \in [enable_reporting : BOOLEAN, auto_execution : BOOLEAN, checkpointer : BOOLEAN] :
        c.checkpointer => c.enable_reporting /\ c.auto_execution}

\* AgentConfig.max_retries
AgentMaxRetries == 3

IdleConfig == [enable_reporting |-> TRUE, auto_execution |-> TRUE, checkpointer |-> FALSE]

\* The record of the most recent node execution: the node, how it ended
\* (the fields of its result), the key its edge function returned and the
\* length of errors when it started (errs).
NoLast == [node |-> "none", tag |-> "none", key |-> "none", used |-> FALSE,
           swallowed |-> FALSE, failed |-> FALSE, req |-> "none", diagnoses |-> 0,
           decision |-> T_empty, low |-> FALSE, errs |-> 0]

Last(n, r, key, errs) ==
    [node |-> n, tag |-> r.tag, key |-> key, used |-> r.used,
     swallowed |-> r.swallowed, failed |-> r.failed, req |-> r.req,
     diagnoses |-> r.diagnoses, decision |-> r.decision, low |-> r.low, errs |-> errs]

\* variant of the engine that keeps the request of a node on record after
\* the node has returned
Commit_keeps_request(n, r, pathMap, key, errs) ==
    /\ last' = Last(n, r, IF r.tag = "ok" THEN key ELSE "none", errs)
    /\ CASE r.tag = "ok" ->
              /\ steps' = steps + 1
              /\ pending' = pending
              /\ IF key \in DOMAIN pathMap
                 THEN /\ node' = pathMap[key]
                      /\ outcome' = IF pathMap[key] = "END" THEN "end"
                                    ELSE IF cfg.checkpointer
                                            /\ pathMap[key] = "execute_actions"
                                    THEN "breakpoint"
                                    ELSE "running"
                 ELSE /\ node' = n
                      /\ outcome' = "routing_error"
         [] r.tag = "interrupt" ->
              /\ outcome' = "suspended"
              /\ pending' = r.req
              /\ UNCHANGED <<steps, node>>
         [] OTHER ->
              /\ outcome' = "crashed"
              /\ pending' = "none"
              /\ UNCHANGED <<steps, node>>

\* what the engine does with the result r of node n
Commit(n, r, pathMap, key, errs) ==
    /\ last' = Last(n, r, IF r.tag = "ok" THEN key ELSE "none", errs)
    /\ CASE r.tag = "ok" ->
              /\ steps' = steps + 1
              /\ pending' = "none"
              /\ IF key \in DOMAIN pathMap
                 THEN /\ node' = pathMap[key]
                      /\ outcome' = IF pathMap[key] = "END" THEN "end"
                                    ELSE IF cfg.checkpointer
                                            /\ pathMap[key] = "execute_actions"
                                    THEN "breakpoint"
                                    ELSE "running"
                 ELSE /\ node' = n
                      /\ outcome' = "routing_error"
         [] r.tag = "interrupt" ->
              /\ outcome' = "suspended"
              /\ pending' = r.req
              /\ UNCHANGED <<steps, node>>
         [] OTHER ->
              /\ outcome' = "crashed"
              /\ pending' = "none"
              /\ UNCHANGED <<steps, node>>

\* res is the sequence of resume values the engine holds for the node
AgentResults(n, res) ==
    CASE n = "initialize" -> {Ok(state, FALSE, 0)}
      [] n = "intelligent_route" -> IntelligentRouteResults(state, res)
      [] n = "collect_info" -> CollectInfoResults(state, res)
      [] n = "process_alert" -> ProcessAlertResults(state, res)
      [] n = "diagnose_issue" -> DiagnoseIssueResults(state, res)
      [] n = "plan_actions" -> PlanActionsResults(state, res)
      [] n = "execute_actions" -> ExecuteActionsResults(state, res, cfg)
      [] n = "generate_report" -> GenerateReportResults(state, cfg)
      [] n = "error_handler" -> ErrorHandlerResults(state)
      [] n = "finalize" -> FinalizeResults(state)

\* The deliveries of one answer are on record in the runs of SpecReplay
\* ("untraced" in all others): answer is the node that consumed the answer
\* at the last delivery of a resume value ("none" when another value was
\* delivered), again whether that node has consumed the same answer at two
\* deliveries in a row.
TracedAnswer == Payload("str", "", T_approved)

Consumes(r, res) == hist.answer # "untraced" /\ res # <<>> /\ r.tag = "ok" /\ r.used

\* how a result changes the history of the run.  diagnoses counts the
\* invocations of the diagnoser over one invocation of diagnose_issue: the
\* execution that suspended and, after the resume, the execution of the
\* node from its start
AgentHist(n, r, res) ==
    [hist EXCEPT !.approved = IF n = "execute_actions" /\ r.tag = "ok"
                              THEN r.used /\ state.action_plan # NoPlan ELSE @,
                 !.handled = IF n = "error_handler" THEN @ + 1 ELSE @,
                 !.diagnoses = IF n # "diagnose_issue" THEN 0
                               ELSE IF outcome = "suspended" THEN @ + r.diagnoses
                               ELSE r.diagnoses,
                 !.answer = IF ~Consumes(r, res) THEN @
                            ELSE IF res[1] = TracedAnswer THEN n ELSE "none",
                 !.again = IF ~Consumes(r, res) THEN @
                           ELSE res[1] = TracedAnswer /\ hist.answer = n]

\* one execution of node n
AgentStep(n, res) ==
    /\ machine = "agent"
    /\ node = n
    /\ steps < RecursionLimit
    /\ \E r \in AgentResults(n, res) :
          /\ state' = IF r.tag = "ok" THEN r.st ELSE state
          /\ hist' = AgentHist(n, r, res)
          /\ Commit(n, r, AgentPathMap(n), EdgeKey(n, r.st, cfg), Len(state.errors))
    /\ UNCHANGED <<machine, cfg, wf, call, system>>

AgentNode(n) == outcome = "running" /\ AgentStep(n, <<>>)

Initialize == AgentNode("initialize")
IntelligentRoute == AgentNode("intelligent_route")
CollectInfo == AgentNode("collect_info")
ProcessAlert == AgentNode("process_alert")
DiagnoseIssue == AgentNode("diagnose_issue")
PlanActions == AgentNode("plan_actions")
ExecuteActions == AgentNode("execute_actions")
GenerateReport == AgentNode("generate_report")
ErrorHandler == AgentNode("error_handler")
Finalize == AgentNode("finalize")

\* the operator answers the pending request (Command(resume=p)): the
\* suspended node runs again from its start, holding the resume value
Resume ==
    /\ outcome = "suspended"
    /\ \E p \in Payloads : AgentStep(node, <<p>>)

\* the run paused at the static breakpoint is continued (invoke(None))
Continue ==
    /\ machine = "agent"
    /\ outcome = "breakpoint"
    /\ outcome' = "running"
    /\ UNCHANGED <<machine, node, steps, state, cfg, pending, wf, last, hist, call, system>>

\* GraphRecursionError: the step ceiling is reached before END
RecursionError ==
    /\ outcome = "running"
    /\ steps >= (IF machine = "agent" THEN RecursionLimit ELSE MaxIterations)
    /\ outcome' = "recursion_error"
    /\ UNCHANGED <<machine, node, steps, state, cfg, pending, wf, last, hist, call, system>>

(***************************************************************************)
(* OpsWorkflow: OpsState, the nodes of WorkflowNodes and the edges of      *)
(* get_conditional_edges / OpsWorkflow._add_edges                          *)
(***************************************************************************)
\* StateManager.initialize_state: max_retries
DefaultMaxRetries == 3

\* StateManager.initialize_state; run() also accepts a caller's initial
\* state, here one with the alert already set
InitialOpsStates ==
    {[current_alert |-> a, alert_analysis |-> FALSE, diagnostic_result |-> FALSE,
      action_plan |-> FALSE, execution_result |-> FALSE, incident_report |-> FALSE,
      workflow_stage |-> "monitoring", workflow_status |-> "active",
      errors |-> <<>>, retry_count |-> 0, max_retries |-> DefaultMaxRetries] :
        a \in BOOLEAN}

IdleOpsState ==
    [current_alert |-> FALSE, alert_analysis |-> FALSE, diagnostic_result |-> FALSE,
     action_plan |-> FALSE, execution_result |-> FALSE, incident_report |-> FALSE,
     workflow_stage |-> "monitoring", workflow_status |-> "active",
     errors |-> <<>>, retry_count |-> 0, max_retries |-> DefaultMaxRetries]

\* StateManager.add_error
add_error(w, e) == [w EXCEPT !.errors = Append(@, e)]

\* variant of StateManager.can_retry with an inclusive comparison
can_retry_inclusive(w) == w.retry_count <= w.max_retries

\* StateManager.can_retry
can_retry(w) == w.retry_count < w.max_retries

\* StateManager.increment_retry
increment_retry(w) == [w EXCEPT !.retry_count = @ + 1]

\* StateManager.reset_retry
reset_retry(w) == [w EXCEPT !.retry_count = 0]

\* StateManager.transition_stage (every stage passed by the nodes is valid)
transition_stage(w, stage) == [w EXCEPT !.workflow_stage = stage]

\* StateManager.update_workflow_status
update_workflow_status(w, status) == [w EXCEPT !.workflow_status = status]

\* `text in str(state["errors"])`
InErrors(w, e) == \E i \in 1..Len(w.errors) : w.errors[i] = e

\* StateManager.validate_state: the violations it reports (workflow_id is
\* set by initialize_state and never written again)
validate_state(w) ==
    {e \in {"Missing required field: workflow_stage",
             "Missing required field: workflow_status",
             "Alert stage requires current_alert",
             "Diagnosis stage requires alert_analysis",
             "Planning stage requires diagnostic_result",
             "Execution stage requires action_plan",
             "Retry count exceeds maximum"} :
        CASE e = "Missing required field: workflow_stage" -> w.workflow_stage = ""
          [] e = "Missing required field: workflow_status" -> w.workflow_status = ""
          [] e = "Alert stage requires current_alert" ->
                 w.workflow_stage = "alerting" /\ ~w.current_alert
          [] e = "Diagnosis stage requires alert_analysis" ->
                 w.workflow_stage = "diagnosis" /\ ~w.alert_analysis
          [] e = "Planning stage requires diagnostic_result" ->
                 w.workflow_stage = "planning" /\ ~w.diagnostic_result
          [] e = "Execution stage requires action_plan" ->
                 w.workflow_stage = "execution" /\ ~w.action_plan
          [] e = "Retry count exceeds maximum" -> w.retry_count > w.max_retries}

\* variant of monitor_collect_node that enters the alerting stage without
\* storing an alert
monitor_collect_node_without_alert(w) == {transition_stage(w, "alerting")}

\* monitor_collect_node: the simulated collection always reports an alert
monitor_collect_node(w) ==
    {transition_stage([w EXCEPT !.current_alert = TRUE], "alerting")}

\* alert_process_node
alert_process_node(w) ==
    IF ~w.current_alert THEN {add_error(w, "Alert process error")}
    ELSE {IF o = "ok"
          THEN transition_stage([w EXCEPT !.alert_analysis = TRUE], "diagnosis")
          ELSE add_error(w, "Alert process error") : o \in OracleOutcomes}

\* diagnosis_node
diagnosis_node(w) ==
    IF ~w.alert_analysis THEN {add_error(w, "Diagnosis error")}
    ELSE {IF o = "ok"
          THEN transition_stage([w EXCEPT !.diagnostic_result = TRUE], "planning")
          ELSE add_error(w, "Diagnosis error") : o \in OracleOutcomes}

\* action_plan_node
action_plan_node(w) ==
    IF ~w.diagnostic_result THEN {add_error(w, "Action planning error")}
    ELSE {IF o = "ok"
          THEN transition_stage([w EXCEPT !.action_plan = TRUE], "execution")
          ELSE add_error(w, "Action planning error") : o \in OracleOutcomes}

\* action_execute_node: the simulated execution of the plan does not fail
action_execute_node(w) ==
    IF ~w.action_plan THEN {add_error(w, "Action execution error")}
    ELSE {transition_stage([w EXCEPT !.execution_result = TRUE], "reporting")}

\* report_generate_node
report_generate_node(w) ==
    IF ~(w.diagnostic_result /\ w.action_plan /\ w.execution_result)
    THEN {add_error(w, "Report generation error")}
    ELSE {IF o = "ok"
          THEN update_workflow_status([w EXCEPT !.incident_report = TRUE], "completed")
          ELSE add_error(w, "Report generation error") : o \in OracleOutcomes}

\* feedback_learn_node
feedback_learn_node(w) == {reset_retry(transition_stage(w, "monitoring"))}

\* variant of error_handling_node that gives up without a retry
error_handling_node_giving_up(w) == {update_workflow_status(w, "failed")}

\* error_handling_node
error_handling_node(w) ==
    {IF can_retry(w)
     THEN LET r == increment_retry(w) IN
          IF InErrors(r, "Alert process error") THEN transition_stage(r, "alerting")
          ELSE IF InErrors(r, "Diagnosis error") THEN transition_stage(r, "diagnosis")
          ELSE IF InErrors(r, "Action planning error") THEN transition_stage(r, "planning")
          ELSE IF InErrors(r, "Action execution error") THEN transition_stage(r, "execution")
          ELSE transition_stage(r, "monitoring")
     ELSE update_workflow_status(w, "failed")}

\* route_from_monitor
route_from_monitor(w) == IF w.current_alert THEN "alert_process" ELSE "monitor_collect"

\* route_from_alert .. route_from_report
route_from_stage(w, successor) == IF w.errors # <<>> THEN "error_handling" ELSE successor

\* route_from_error
route_from_error(w) == IF w.workflow_status = "failed" THEN "END" ELSE w.workflow_stage

\* get_conditional_edges
WorkflowEdgeKey(n, w) ==
    CASE n = "monitor_collect" -> route_from_monitor(w)
      [] n = "alert_process" -> route_from_stage(w, "diagnosis")
      [] n = "diagnosis" -> route_from_stage(w, "action_plan")
      [] n = "action_plan" -> route_from_stage(w, "action_execute")
      [] n = "action_execute" -> route_from_stage(w, "report_generate")
      [] n = "report_generate" -> route_from_stage(w, "feedback_learn")
      [] n = "feedback_learn" -> "monitor_collect"
      [] n = "error_handling" -> route_from_error(w)

\* OpsWorkflow._add_edges
WorkflowPathMap(n) ==
    CASE n = "monitor_collect" -> Same({"alert_process", "monitor_collect"})
      [] n = "alert_process" -> Same({"diagnosis", "error_handling"})
      [] n = "diagnosis" -> Same({"action_plan", "error_handling"})
      [] n = "action_plan" -> Same({"action_execute", "error_handling"})
      [] n = "action_execute" -> Same({"report_generate", "error_handling"})
      [] n = "report_generate" -> Same({"feedback_learn", "error_handling"})
      [] n = "feedback_learn" -> Same({"monitor_collect"})
      [] n = "error_handling" ->
            Same({"monitor_collect", "diagnosis", "END"})
            @@ ("alerting" :> "alert_process") @@ ("planning" :> "action_plan")
            @@ ("execution" :> "action_execute") @@ ("reporting" :> "report_generate")

\* get_node_router: the node function of n, applied to the record w
StageResults(n, w) ==
    CASE n = "monitor_collect" -> monitor_collect_node(w)
      [] n = "alert_process" -> alert_process_node(w)
      [] n = "diagnosis" -> diagnosis_node(w)
      [] n = "action_plan" -> action_plan_node(w)
      [] n = "action_execute" -> action_execute_node(w)
      [] n = "report_generate" -> report_generate_node(w)
      [] n = "feedback_learn" -> feedback_learn_node(w)
      [] n = "error_handling" -> error_handling_node(w)

WorkflowResults(n) == StageResults(n, wf)

StageNodes == {"alert_process", "diagnosis", "action_plan", "action_execute",
               "report_generate"}

\* how a node's result and its edge change the history of the run
WorkflowHist(n, w, key) ==
    [hist EXCEPT
       !.redispatches = IF n = "error_handling" /\ key \in DOMAIN WorkflowPathMap(n)
                           /\ WorkflowPathMap(n)[key] \in StageNodes
                        THEN @ + 1 ELSE @]

WorkflowNode(n) ==
    /\ machine = "workflow"
    /\ outcome = "running"
    /\ node = n
    /\ steps < MaxIterations
    /\ \E w \in WorkflowResults(n) :
          /\ wf' = w
          /\ hist' = WorkflowHist(n, w, WorkflowEdgeKey(n, w))
          /\ Commit(n, Result("ok", state, "none", FALSE, FALSE,
                              Len(w.errors) > Len(wf.errors), 0),
                    WorkflowPathMap(n), WorkflowEdgeKey(n, w), Len(wf.errors))
    /\ UNCHANGED <<machine, state, cfg, call, system>>

MonitorCollect == WorkflowNode("monitor_collect")
AlertProcess == WorkflowNode("alert_process")
Diagnosis == WorkflowNode("diagnosis")
ActionPlan == WorkflowNode("action_plan")
ActionExecute == WorkflowNode("action_execute")
ReportGenerate == WorkflowNode("report_generate")
FeedbackLearn == WorkflowNode("feedback_learn")
ErrorHandling == WorkflowNode("error_handling")

(***************************************************************************)
(* Single calls of the functions of the program that are pure: machine =   *)
(* "call", and `call` holds the function, its argument and, once the call  *)
(* is done, its return value.                                              *)
(***************************************************************************)
NoCall == [fn |-> "none", arg |-> <<>>, done |-> FALSE, ret |-> <<>>]

Call(fn, arg) == [fn |-> fn, arg |-> arg, done |-> FALSE, ret |-> <<>>]

\* the call returns
Return(fn, ret) ==
    /\ machine = "call"
    /\ call.fn = fn
    /\ ~call.done
    /\ call' = [call EXCEPT !.done = TRUE, !.ret = ret]
    /\ UNCHANGED <<machine, node, steps, outcome, state, cfg, pending, wf, last, hist, system>>

\* ChatStates with every combination of present and absent slots, and no
\* routing-analysis message
SlotStates ==
    {[IdleChatState EXCEPT !.messages = m, !.alert_info = a, !.symptoms = s,
                           !.analysis_result = an, !.diagnostic_result = d,
                           !.action_plan = p, !.execution_result = e] :
        m \in {NoMessages,
               [empty |-> FALSE, hasInput |-> TRUE, route |-> "none",
                lastKind |-> "input", hasAI |-> FALSE, len |-> -1]},
        a \in BOOLEAN, s \in {{}, {"s1"}}, an \in BOOLEAN, d \in {"none", "high"},
        p \in {NoPlan, Plan("safe", "low", FALSE, <<StepCheck>>)},
        e \in {NoExecution, ExecutionResult("success", <<"check">>)}}

\* A message as _route_condition reads it: whether its content holds the
\* marker of a routing-analysis message, and the words of its content.
ChatMessage(marker, content) == [marker |-> marker, content |-> content]

\* _create_routing_analysis_message: the marker, the decision's next_task and
\* its free-text user_message
RoutingAnalysisMessage(next_task, user_message) ==
    ChatMessage(TRUE, <<next_task>> \o user_message)

\* `name in content`
Mentions(content, name) == \E i \in 1..Len(content) : content[i] = name

\* the if/elif chain of _route_condition, lines 1358-1369
NamedStage(content) ==
    IF Mentions(content, "collect_info") THEN "collect_info"
    ELSE IF Mentions(content, "execute_actions") THEN "execute_actions"
    ELSE IF Mentions(content, "plan_actions") THEN "plan_actions"
    ELSE IF Mentions(content, "diagnose_issue") THEN "diagnose_issue"
    ELSE IF Mentions(content, "process_alert") THEN "process_alert"
    ELSE IF Mentions(content, "generate_report") THEN "generate_report"
    ELSE "none"

\* _route_condition, lines 1352-1369: the loop over reversed(messages);
\* "none" when the loop ends without a return
RECURSIVE RouteFromMessages(_)
RouteFromMessages(msgs) ==
    IF msgs = <<>> THEN "none"
    ELSE LET msg == msgs[Len(msgs)] IN
         IF msg.marker /\ NamedStage(msg.content) # "none" THEN NamedStage(msg.content)
         ELSE RouteFromMessages(SubSeq(msgs, 1, Len(msgs) - 1))

\* the messages the calls draw from: user texts and routing-analysis messages
SomeMessages ==
    {ChatMessage(FALSE, <<"cpu", "high">>), ChatMessage(FALSE, <<"plan_actions", "please">>)}
    \cup {RoutingAnalysisMessage(t, u) :
            t \in {"diagnose_issue", "plan_actions", "finalize"},
            u \in {<<>>, <<"ok">>, <<"will", "collect_info", "first">>}}

MaxMessages == 2

MessageLists ==
    UNION {[1..n -> SomeMessages] : n \in 0..MaxMessages}

\* _apply_extracted_info, lines 1253-1255, on the symptoms slot alone.  The
\* slot is a missing key, None or a list; the results are the values the
\* slot can hold afterwards: list(set(...)) has the distinct items in the
\* iteration order of the set, and None + list raises TypeError.
MergeSymptoms(slot, extracted_symptoms) ==
    IF extracted_symptoms = <<>> THEN {slot}
    ELSE IF slot.kind = "None" THEN {[kind |-> "TypeError", items |-> <<>>]}
    ELSE LET both == slot.items \o extracted_symptoms
             distinct == {both[i] : i \in 1..Len(both)}
         IN  {[kind |-> "list", items |-> l] :
                l \in {q \in [1..Cardinality(distinct) -> distinct] :
                          \A i, j \in DOMAIN q : q[i] = q[j] => i = j}}

\* two extractions are applied to a symptoms slot, one after the other; a
\* TypeError ends the first call
CallUnionSymptoms ==
    /\ call.fn = "union_symptoms"
    /\ \E s1 \in MergeSymptoms(call.arg.slot, call.arg.first) :
          IF s1.kind = "TypeError" THEN Return("union_symptoms", s1)
          ELSE \E s2 \in MergeSymptoms(s1, call.arg.second) : Return("union_symptoms", s2)

\* OpsStates a workflow can be in when it is persisted
PersistedOpsStates ==
    {[IdleOpsState EXCEPT !.current_alert = TRUE, !.alert_analysis = a,
                          !.diagnostic_result = a /\ d, !.incident_report = r,
                          !.workflow_stage = stage, !.workflow_status = status,
                          !.errors = e, !.retry_count = Len(e)] :
        a \in BOOLEAN, d \in BOOLEAN, r \in BOOLEAN,
        stage \in {"monitoring", "alerting", "diagnosis", "planning"},
        status \in {"active", "failed", "completed"},
        e \in {<<>>, <<"Diagnosis error">>}}

\* StateManager.export_state: the dict it returns, as a record
export_state(w) ==
    [stage |-> w.workflow_stage, status |-> w.workflow_status,
     current_alert |-> w.current_alert, alert_analysis |-> w.alert_analysis,
     diagnostic_result |-> w.diagnostic_result, action_plan |-> w.action_plan,
     execution_result |-> w.execution_result,
     errors |-> w.errors, retry_count |-> w.retry_count]

\* StateManager.import_state; state_data.get(key, default) for the keys
\* that may be missing
import_state(state_data) ==
    LET get(key, default) ==
            IF key \in DOMAIN state_data THEN state_data[key] ELSE default
    IN  [current_alert |-> state_data.current_alert,
         alert_analysis |-> state_data.alert_analysis,
         diagnostic_result |-> state_data.diagnostic_result,
         action_plan |-> state_data.action_plan,
         execution_result |-> state_data.execution_result,
         incident_report |-> FALSE,
         workflow_stage |-> get("workflow_stage", "monitoring"),
         workflow_status |-> get("workflow_status", "active"),
         errors |-> get("errors", <<>>),
         retry_count |-> get("retry_count", 0),
         max_retries |-> get("max_retries", 3)]

\* a state is exported and the export is imported
CallRoundTrip == Return("round_trip", import_state(export_state(call.arg)))

\* resume payloads of every shape the request_* functions tell apart: a
\* string, None, a dict with a known or an unknown key, a dict nested one
\* level, with an empty or a non-empty text
RequestPayloads ==
    Payloads
    \cup {Payload(t, k, v) : t \in {"dict", "nested"},
                             k \in {"response", "decision", "clarification", "content",
                                    "other"},
                             v \in {T_empty, T_approved}}

\* one of the three request_* functions returns for a resume payload
CallRequest ==
    /\ call.fn = "request"
    /\ Return("request",
              CASE call.arg.fn = "request_operator_input" ->
                       request_operator_input(call.arg.p)
                [] call.arg.fn = "request_execution_approval" ->
                       request_execution_approval(call.arg.p)
                [] call.arg.fn = "request_clarification" ->
                       request_clarification(call.arg.p))

\* states given to SmartIntelligentRouter._create_fallback_decision: the two
\* query lists are empty or not, a slot is missing, holds an empty value or
\* holds a value
FallbackStates ==
    [memory_queries : BOOLEAN, info_collection_queries : BOOLEAN,
     alert_info : {"missing", "empty", "set"},
     analysis_result : {"missing", "empty", "set"},
     diagnostic_result : {"missing", "empty", "set"},
     action_plan : {"missing", "empty", "set"},
     execution_result : {"missing", "empty", "set"},
     report : {"missing", "empty", "set"}]

\* variant of _create_fallback_decision that looks at action_plan before
\* diagnostic_result
create_fallback_decision_plan_first(st) ==
    IF st.memory_queries THEN "retrieve_memory"
    ELSE IF st.info_collection_queries THEN "collect_info"
    ELSE IF st.alert_info # "set" THEN "collect_info"
    ELSE IF st.analysis_result # "set" THEN "process_alert"
    ELSE IF st.action_plan # "set" THEN "plan_actions"
    ELSE IF st.diagnostic_result # "set" THEN "diagnose_issue"
    ELSE IF st.execution_result # "set" THEN "execute_actions"
    ELSE IF st.report # "set" THEN "generate_report"
    ELSE "END"

\* SmartIntelligentRouter._create_fallback_decision: next_node (`state.get`
\* is falsy for a missing key and for an empty value)
create_fallback_decision(st) ==
    IF st.memory_queries THEN "retrieve_memory"
    ELSE IF st.info_collection_queries THEN "collect_info"
    ELSE IF st.alert_info # "set" THEN "collect_info"
    ELSE IF st.analysis_result # "set" THEN "process_alert"
    ELSE IF st.diagnostic_result # "set" THEN "diagnose_issue"
    ELSE IF st.action_plan # "set" THEN "plan_actions"
    ELSE IF st.execution_result # "set" THEN "execute_actions"
    ELSE IF st.report # "set" THEN "generate_report"
    ELSE "END"

CallFallbackDecision ==
    /\ call.fn = "fallback_decision"
    /\ Return("fallback_decision", create_fallback_decision(call.arg))

\* the message scan of _route_condition called on a message list
CallRouteFromMessages == Return("route_from_messages", RouteFromMessages(call.arg))

\* _route_condition called on a state
CallRouteCondition == Return("route_condition", RouteCondition(call.arg))

(***************************************************************************)
(* Specification                                                           *)
(***************************************************************************)
NoHist == [approved |-> FALSE, handled |-> 0, redispatches |-> 0, diagnoses |-> 0,
           answer |-> "untraced", again |-> FALSE]

(***************************************************************************)
(* MultiAgentOpsSystem: several workflows run at once (asyncio.gather),    *)
(* all created through the one StateManager of the system.  Dicts and      *)
(* lists are objects: `dicts` and `lists` are the heap, a reference is an  *)
(* index into it, 0 is None.  A coroutine runs without interruption up to  *)
(* its next await, so each action is one such stretch of one coroutine.    *)
(* Every object carries in `by` the agents whose code has read or written  *)
(* it.                                                                     *)
(***************************************************************************)
\* the agents _run_collaborative_agents starts
GatheredAgents == {"network", "database", "application"}

\* ceiling on the node executions followed for each gathered workflow
MaxAgentSteps == 4

NoSystem ==
    [dicts |-> <<>>, lists |-> <<>>, current_state |-> 0, state_history |-> <<>>,
     task |-> <<>>]

\* variant of StateManager.initialize_state that hands out the state it
\* already holds
initialize_state_reusing(sys, a, workflow_id) ==
    IF sys.current_state # 0
    THEN [sys EXCEPT !.dicts[sys.current_state].workflow_id = workflow_id,
                     !.dicts[sys.current_state].by = @ \cup {a},
                     !.state_history = Append(@, sys.dicts[sys.current_state])]
    ELSE LET st == [IdleOpsState EXCEPT !.errors = Len(sys.lists) + 1]
                   @@ [workflow_id |-> workflow_id, system_context |-> "none",
                       by |-> {a}]
         IN  [sys EXCEPT !.lists = Append(@, [items |-> <<>>, by |-> {a}]),
                         !.dicts = Append(@, st),
                         !.current_state = Len(sys.dicts) + 1,
                         !.state_history = Append(@, st)]

\* StateManager.initialize_state, called by the coroutine of agent a: a new
\* dict with a new errors list becomes current_state, a copy of it goes to
\* state_history; the caller receives current_state
initialize_state(sys, a, workflow_id) ==
    LET st == [IdleOpsState EXCEPT !.errors = Len(sys.lists) + 1]
              @@ [workflow_id |-> workflow_id, system_context |-> "none",
                  by |-> {a}]
    IN  [sys EXCEPT !.lists = Append(@, [items |-> <<>>, by |-> {a}]),
                    !.dicts = Append(@, st),
                    !.current_state = Len(sys.dicts) + 1,
                    !.state_history = Append(@, st)]

\* StateManager.update_state on the dict at ref: the keys the dict has are
\* overwritten in place, a copy goes to state_history
update_state(sys, a, ref, updates) ==
    LET d == sys.dicts[ref]
        u == [k \in DOMAIN d |->
                 IF k = "by" THEN d.by \cup {a}
                 ELSE IF k \in DOMAIN updates THEN updates[k] ELSE d[k]]
    IN  [sys EXCEPT !.dicts[ref] = u, !.state_history = Append(@, u)]

\* _run_network_agent, _run_database_agent, _run_application_agent up to
\* `await self.agents[...].run(initial_state)`, and run() up to its await of
\* ainvoke: the graph of the agent's own OpsWorkflow starts at its entry
\* point on initial_state
RunAgent ==
    /\ machine = "system"
    /\ \E a \in DOMAIN system.task :
          /\ system.task[a].pc = "created"
          /\ LET s1 == initialize_state(system, a, <<a, "incident_001">>)
                 initial_state == s1.current_state
                 s2 == update_state(s1, a, initial_state,
                                    [current_alert |-> TRUE, system_context |-> a])
             IN  system' = [s2 EXCEPT !.task[a] =
                                [pc |-> "running", state |-> initial_state,
                                 node |-> "monitor_collect", steps |-> 0]]
    /\ UNCHANGED <<machine, node, steps, outcome, state, cfg, pending, wf, last,
                   hist, call>>

\* one node of the graph of a gathered workflow runs on the state of that
\* workflow (its node functions use the StateManager of its own
\* WorkflowNodes), then the conditional edge is taken
RunInstance ==
    /\ machine = "system"
    /\ \E a \in DOMAIN system.task :
          LET t == system.task[a]
              d == system.dicts[t.state]
              w == [d EXCEPT !.errors = system.lists[d.errors].items]
          IN  /\ t.pc = "running"
              /\ t.steps < MaxAgentSteps
              /\ \E r \in StageResults(t.node, w) :
                    LET key == WorkflowEdgeKey(t.node, r)
                        pathMap == WorkflowPathMap(t.node)
                    IN  system' =
                          [system EXCEPT
                             !.dicts[t.state] =
                                 [r EXCEPT !.errors = d.errors, !.by = @ \cup {a}],
                             !.lists[d.errors] =
                                 [items |-> r.errors, by |-> @.by \cup {a}],
                             !.task[a] =
                                 IF key \notin DOMAIN pathMap
                                 THEN [t EXCEPT !.pc = "routing_error"]
                                 ELSE IF pathMap[key] = "END"
                                 THEN [t EXCEPT !.pc = "done"]
                                 ELSE [t EXCEPT !.node = pathMap[key],
                                                !.steps = @ + 1]]
    /\ UNCHANGED <<machine, node, steps, outcome, state, cfg, pending, wf, last,
                   hist, call>>

InitAgent ==
    /\ machine = "agent"
    /\ node = "initialize"
    /\ state \in InitialChatStates
    /\ cfg \in AgentConfigs
    /\ wf = IdleOpsState

InitWorkflow ==
    /\ machine = "workflow"
    /\ node = "monitor_collect"
    /\ wf \in InitialOpsStates
    /\ state = IdleChatState
    /\ cfg = IdleConfig

Init ==
    /\ InitAgent \/ InitWorkflow
    /\ steps = 0
    /\ outcome = "running"
    /\ pending = "none"
    /\ last = NoLast
    /\ hist = NoHist
    /\ call = NoCall
    /\ system = NoSystem

Next ==
    \/ Initialize
    \/ IntelligentRoute
    \/ CollectInfo
    \/ ProcessAlert
    \/ DiagnoseIssue
    \/ PlanActions
    \/ ExecuteActions
    \/ GenerateReport
    \/ ErrorHandler
    \/ Finalize
    \/ Resume
    \/ Continue
    \/ RecursionError
    \/ MonitorCollect
    \/ AlertProcess
    \/ Diagnosis
    \/ ActionPlan
    \/ ActionExecute
    \/ ReportGenerate
    \/ FeedbackLearn
    \/ ErrorHandling

Spec == Init /\ [][Next]_vars

\* the calls of single functions
Calls ==
    {Call("route_condition", st) : st \in SlotStates}
    \cup {Call("route_from_messages", msgs) : msgs \in MessageLists}
    \cup {Call("round_trip", w) : w \in PersistedOpsStates}
    \cup {Call("union_symptoms", [slot |-> sl, first |-> x, second |-> y]) :
             sl \in {[kind |-> "missing", items |-> <<>>], [kind |-> "None", items |-> <<>>]}
                    \cup {[kind |-> "list", items |-> l] :
                             l \in {<<>>, <<"a">>, <<"c", "a">>, <<"d">>}},
             x \in {<<>>, <<"a", "b">>, <<"b", "c">>},
             y \in {<<>>, <<"a", "b">>, <<"b", "c">>}}
    \cup {Call("fallback_decision", st) : st \in FallbackStates}
    \cup {Call("request", [fn |-> f, p |-> p]) :
             f \in {"request_operator_input", "request_execution_approval",
                    "request_clarification"},
             p \in RequestPayloads}

InitCalls ==
    /\ machine = "call"
    /\ call \in Calls
    /\ node = "none"
    /\ steps = 0
    /\ outcome = "running"
    /\ state = IdleChatState
    /\ cfg = IdleConfig
    /\ pending = "none"
    /\ wf = IdleOpsState
    /\ last = NoLast
    /\ hist = NoHist
    /\ system = NoSystem

NextCalls ==
    \/ CallRouteCondition
    \/ CallRouteFromMessages
    \/ CallRoundTrip
    \/ CallUnionSymptoms
    \/ CallRequest
    \/ CallFallbackDecision

SpecCalls == InitCalls /\ [][NextCalls]_vars

\* The agent graph alone
NextAgent ==
    \/ Initialize
    \/ IntelligentRoute
    \/ CollectInfo
    \/ ProcessAlert
    \/ DiagnoseIssue
    \/ PlanActions
    \/ ExecuteActions
    \/ GenerateReport
    \/ ErrorHandler
    \/ Finalize
    \/ Resume
    \/ Continue
    \/ RecursionError

\* The runs of the agent graph that start from a chat of n messages, the
\* last one a user message, under the default AgentConfig; h is the record
\* of the run at its start
InitChat(n, h) ==
    /\ machine = "agent"
    /\ node = "initialize"
    /\ state \in {[st EXCEPT !.messages.len = n] :
                     st \in {s \in InitialChatStates :
                                ~s.messages.empty /\ ~s.alert_info /\ s.symptoms = {}}}
    /\ cfg \in {c \in AgentConfigs : c.enable_reporting /\ c.auto_execution}
    /\ wf = IdleOpsState
    /\ steps = 0
    /\ outcome = "running"
    /\ pending = "none"
    /\ last = NoLast
    /\ hist = h
    /\ call = NoCall
    /\ system = NoSystem

\* with the length of messages on record
SpecCounted == InitChat(1, NoHist) /\ [][NextAgent]_vars

\* with the deliveries of TracedAnswer on record
SpecReplay == InitChat(-1, [NoHist EXCEPT !.answer = "none"]) /\ [][NextAgent]_vars

\* _run_collaborative_agents: a task for each registered agent of the three,
\* none of them started; asyncio.gather then runs them in any interleaving
InitSystem ==
    /\ machine = "system"
    /\ \E registered \in {R \in SUBSET GatheredAgents : Cardinality(R) >= 2} :
          system = [NoSystem EXCEPT
                      !.task = [a \in registered |->
                                   [pc |-> "created", state |-> 0, node |-> "none",
                                    steps |-> 0]]]
    /\ node = "none"
    /\ steps = 0
    /\ outcome = "running"
    /\ state = IdleChatState
    /\ cfg = IdleConfig
    /\ pending = "none"
    /\ wf = IdleOpsState
    /\ last = NoLast
    /\ hist = NoHist
    /\ call = NoCall

NextSystem ==
    \/ RunAgent
    \/ RunInstance

SpecSystem == InitSystem /\ [][NextSystem]_vars

(***************************************************************************)
(* Properties                                                              *)
(***************************************************************************)
\* the stage handlers of the agent graph
StageHandlers == {"process_alert", "diagnose_issue", "plan_actions",
                  "execute_actions", "generate_report"}

\* the denylisted verbs occur in a field of the step
MatchesDenylist(s) ==
    \E v \in high_risk_actions :
        \/ IsSubstr(v, Lower(s.action_type))
        \/ IsSubstr(v, Lower(s.description))
        \/ IsSubstr(v, Lower(s.command))

\* some step of the plan is flagged high-risk
HasHighRiskStep(plan) ==
    \E i \in 1..Len(plan.steps) :
        plan.steps[i].risk_level \in {"high", "critical"} \/ MatchesDenylist(plan.steps[i])

\* some step of the plan has action_type "restart_service"
HasRestartStep(plan) ==
    \E i \in 1..Len(plan.steps) : plan.steps[i].action_type = T_restart_service

\* the most recent node execution was execute_actions working on a plan
ExecutedOn(plan) ==
    /\ machine = "agent"
    /\ last.node = "execute_actions"
    /\ state.action_plan = plan
    /\ plan # NoPlan

\* C1: every run either is still under way (running, or suspended for the
\* operator), has reached END, or was aborted by the step ceiling; a run is
\* never aborted in another way, and never exceeds the ceiling.
C1_RunEndsOrExhaustsBudget ==
    /\ outcome \in {"running", "suspended", "end", "recursion_error"}
    /\ steps <= (IF machine = "agent" THEN RecursionLimit ELSE MaxIterations)

\* C2: when execute_actions has executed a step of a plan that has a step
\* flagged high-risk (risk_level high/critical, or a denylisted verb), an
\* approval request was issued and answered in that execution.
C2_HighRiskStepNeedsApproval ==
    \A plan \in Plans :
        (/\ ExecutedOn(plan)
         /\ HasHighRiskStep(plan)
         /\ state.execution_result.executed_steps # <<>>) => hist.approved

\* C3: for a plan with a restart_service step, execute_actions started
\* without a reply suspends with an approval request and no step executed;
\* resumed with the reply "rejected" it commits rejected_by_operator with zero
\* executed steps.
C3_RestartPlanSuspendsAndRejects ==
    \A plan \in Plans :
        (ExecutedOn(plan) /\ HasRestartStep(plan)) =>
            /\ ~last.used =>
                  /\ last.tag = "interrupt"
                  /\ outcome = "suspended"
                  /\ pending = "execution_approval"
                  /\ state.execution_result = NoExecution
            /\ (last.used /\ last.decision = T_rejected) =>
                  /\ last.tag = "ok"
                  /\ state.execution_result = ExecutionResult("rejected_by_operator", <<>>)
            /\ state.execution_result.executed_steps # <<>> => hist.approved

\* C3 witness: a restart plan was suspended for approval and rejected
C3_Witness ==
    /\ ExecutedOn(state.action_plan)
    /\ HasRestartStep(state.action_plan)
    /\ last.used
    /\ last.decision = T_rejected
    /\ state.execution_result.status = "rejected_by_operator"

\* C4: no node catches a suspension signal and turns it into an errors entry.
C4_SuspensionPropagates ==
    (machine = "agent" /\ last.node \in StageHandlers \cup {"intelligent_route", "collect_info"})
        => ~last.swallowed

\* C5: a stage handler in which an oracle raised an exception that is no
\* suspension signal returns normally, with a new entry appended to errors.
C5_OracleFailureBecomesError ==
    (machine = "agent" /\ last.node \in StageHandlers /\ last.failed) =>
        /\ last.tag = "ok"
        /\ Len(state.errors) > last.errs

\* C6: error_handling re-dispatches a stage only while retry_count <
\* max_retries, counting each re-dispatch, so a run holds at most max_retries
\* re-dispatches; with the budget used up it sets workflow_status = failed and
\* the run goes to END.
C6_RetryBudget ==
    machine = "workflow" =>
        /\ wf.retry_count <= wf.max_retries
        /\ hist.redispatches <= wf.retry_count
        /\ last.node = "error_handling" =>
              \/ /\ wf.workflow_status = "failed"
                 /\ wf.retry_count = wf.max_retries
                 /\ outcome = "end"
              \/ /\ wf.workflow_status # "failed"
                 /\ wf.retry_count >= 1
                 /\ outcome # "end"
        /\ outcome = "end" => wf.workflow_status = "failed"

\* C6 witness: the budget was used up by re-dispatches and the run ended
C6_Witness ==
    /\ machine = "workflow"
    /\ outcome = "end"
    /\ hist.redispatches = wf.max_retries
    /\ wf.workflow_status = "failed"

\* C7: the error node of the agent sends the run back for a retry while the
\* budget (AgentConfig.max_retries) remains, and in OpsWorkflow a stage that
\* succeeds on its re-invocation is followed by its normal successor.
C7_RetryRecovers ==
    /\ (machine = "agent" /\ last.node = "error_handler" /\ last.tag = "ok"
          /\ hist.handled <= AgentMaxRetries) => last.key = "retry"
    /\ (machine = "workflow" /\ last.node \in StageNodes /\ ~last.failed
          /\ outcome = "running") => node # "error_handling"

\* C8: a later slot is never set while its precondition slot is absent:
\* action_plan only with diagnostic_result, execution_result only with
\* action_plan, in both graphs.
C8_PreconditionMonotonicity ==
    /\ machine = "agent" =>
          /\ state.action_plan # NoPlan => state.diagnostic_result # "none"
          /\ state.execution_result # NoExecution => state.action_plan # NoPlan
    /\ machine = "workflow" =>
          /\ wf.action_plan => wf.diagnostic_result
          /\ wf.execution_result => wf.action_plan

\* C8 witness: the agent has committed an execution result
C8_Witness ==
    /\ machine = "agent"
    /\ state.execution_result # NoExecution
    /\ state.diagnostic_result # "none"

\* the state holds nothing but what the router itself may have added to errors
EntirelyEmpty(st) == [st EXCEPT !.errors = <<>>] = IdleChatState

\* C9: from an entirely empty state the router selects collect_info and
\* produces no error.
C9_EmptyStateCollectsInfo ==
    (machine = "agent" /\ last.node = "intelligent_route" /\ last.tag = "ok"
       /\ EntirelyEmpty(state)) =>
        /\ last.key = "collect_info"
        /\ state.errors = <<>>

\* the precondition of a stage
StagePrecondition(stage, st) ==
    CASE stage = "diagnose_issue" -> st.alert_info \/ st.symptoms # {} \/ st.context # {}
      [] stage = "plan_actions" -> st.diagnostic_result # "none"
      [] stage = "execute_actions" -> st.action_plan # NoPlan
      [] OTHER -> TRUE

\* C10: when the router hands over on an oracle-driven routing decision, the
\* decided stage is chosen if its precondition holds and collect_info if not.
C10_RoutedStageHasPrecondition ==
    (machine = "agent" /\ last.node = "intelligent_route" /\ last.tag = "ok"
       /\ state.messages.route # "none") =>
        last.key = (IF StagePrecondition(state.messages.route, state)
                    THEN state.messages.route ELSE "collect_info")

\* C11: a routing decision whose confidence is below 0.2 is never acted on:
\* when the router has committed such a decision (after a clarification round
\* or with an empty clarification), the next stage is the one the data-driven
\* inference gives.
C11_LowConfidenceFallsBack ==
    (machine = "agent" /\ last.node = "intelligent_route" /\ last.tag = "ok"
       /\ last.low) => last.key = DataDrivenRoute(state)

\* _route_condition was called on st and has returned
RouteConditionReturned(st) ==
    /\ machine = "call"
    /\ call.fn = "route_condition"
    /\ call.done
    /\ call.arg = st

\* C12: without a routing message, _route_condition takes the first true
\* predicate in the order: plan without execution result -> execute_actions;
\* diagnosis without plan -> plan_actions; symptoms or alert without
\* diagnosis -> diagnose_issue; alert without analysis -> process_alert.
C12_DataDrivenOrder ==
    \A st \in SlotStates :
        RouteConditionReturned(st) =>
            LET toExecute == st.action_plan # NoPlan /\ st.execution_result = NoExecution
                toPlan == st.diagnostic_result # "none" /\ st.action_plan = NoPlan
                toDiagnose == (st.symptoms # {} \/ st.alert_info)
                                 /\ st.diagnostic_result = "none"
                toProcess == st.alert_info /\ ~st.analysis_result
            IN  /\ toExecute => call.ret = "execute_actions"
                /\ (~toExecute /\ toPlan) => call.ret = "plan_actions"
                /\ (~toExecute /\ ~toPlan /\ toDiagnose) => call.ret = "diagnose_issue"
                /\ (~toExecute /\ ~toPlan /\ ~toDiagnose /\ toProcess)
                      => call.ret = "process_alert"

\* C12 witness: the last predicate of the order decided the call
C12_Witness ==
    /\ RouteConditionReturned(call.arg)
    /\ call.arg.diagnostic_result # "none"
    /\ call.arg.execution_result # NoExecution
    /\ call.ret = "process_alert"

\* the most recent routing-analysis message of a list that holds one
RECURSIVE MostRecentRouting(_)
MostRecentRouting(msgs) ==
    IF msgs[Len(msgs)].marker THEN msgs[Len(msgs)]
    ELSE MostRecentRouting(SubSeq(msgs, 1, Len(msgs) - 1))

\* C13: when the messages hold routing-analysis messages, the scan of
\* _route_condition returns the next task recorded in the most recent one,
\* whatever the older messages and the free text say.
C13_MostRecentNextTask ==
    (/\ machine = "call"
     /\ call.fn = "route_from_messages"
     /\ call.done
     /\ \E i \in 1..Len(call.arg) : call.arg[i].marker)
        => call.ret = MostRecentRouting(call.arg).content[1]

\* C14: whenever the router node has handed control to a next node, the last
\* message is the routing-analysis message the router appended, also when
\* the routing oracle failed.
C14_HandOffHasRoutingMessage ==
    (machine = "agent" /\ last.node = "intelligent_route" /\ last.tag = "ok"
       /\ outcome = "running")
        => state.messages.lastKind = "routing"

\* C15: a stage handler is never followed directly by another stage
\* handler: between two stage handlers the router node executes.
C15_RouterBetweenStages ==
    (machine = "agent" /\ last.node \in StageHandlers /\ last.tag = "ok"
       /\ outcome = "running")
        => node \notin StageHandlers

\* C16: when diagnose_issue has asked the operator once and re-invoked the
\* diagnoser with the supplementary information, the diagnoser has been
\* invoked twice over the whole suspend/resume cycle.
C16_OneReattempt ==
    (machine = "agent" /\ last.node = "diagnose_issue" /\ last.tag = "ok"
       /\ last.used /\ last.diagnoses = 2)
        => hist.diagnoses = 2

\* the reply contains a word of the rejection vocabulary, in any letter case
ContainsRejection(t) ==
    \E v \in {T_rejected, T_deny, T_no, T_cancel} : IsSubstr(v, Lower(t))

\* C17: when execute_actions has read an approval reply that contains a
\* rejection word, it records the rejection and executes no step.
C17_RejectionBySubstring ==
    (machine = "agent" /\ last.node = "execute_actions" /\ last.tag = "ok"
       /\ last.used /\ ContainsRejection(last.decision))
        => /\ state.execution_result.status = "rejected_by_operator"
           /\ state.execution_result.executed_steps = <<>>

\* C18: when execute_actions has classified the reply as a request for
\* modification, no step is executed and the run goes back towards
\* planning (to plan_actions, or to the router that can choose it), not to
\* report generation or to the terminal node.
C18_ModificationGoesBackToPlanning ==
    (machine = "agent" /\ last.node = "execute_actions" /\ last.tag = "ok"
       /\ state.execution_result.status = "modification_requested")
        => /\ state.execution_result.executed_steps = <<>>
           /\ outcome = "running"
           /\ node \in {"plan_actions", "intelligent_route"}

\* C19: when the router node or a stage node has run and errors is not
\* empty, the node chosen next is the error node, in both graphs.
C19_ErrorsDispatchToErrorNode ==
    /\ (machine = "agent" /\ last.node \in StageHandlers \cup {"intelligent_route"}
          /\ last.tag = "ok" /\ outcome = "running" /\ state.errors # <<>>)
           => node = "error_handler"
    /\ (machine = "workflow" /\ last.node \in StageNodes \cup {"monitor_collect"}
          /\ outcome = "running" /\ wf.errors # <<>>)
           => node = "error_handling"

\* C20: after execute_actions has committed an execution_result without an
\* error, the next node is generate_report when reporting is enabled and
\* finalize when it is not; after generate_report has committed a report,
\* the next node is finalize.
C20_ForwardTargetsAfterExecution ==
    /\ (machine = "agent" /\ last.node = "execute_actions" /\ last.tag = "ok"
          /\ state.execution_result # NoExecution /\ state.errors = <<>>
          /\ ~HasBackjumpRequest(state))
           => /\ outcome = "running"
              /\ node = IF cfg.enable_reporting THEN "generate_report" ELSE "finalize"
    /\ (machine = "agent" /\ last.node = "generate_report" /\ last.tag = "ok"
          /\ state.report # "none" /\ state.errors = <<>>
          /\ ~HasBackjumpRequest(state))
           => outcome = "running" /\ node = "finalize"

\* a stage node has just run although the slot it requires was absent
RanWithoutPrecondition ==
    \/ /\ machine = "agent" /\ last.tag = "ok"
       /\ \/ last.node = "plan_actions" /\ state.diagnostic_result = "none"
          \/ last.node = "execute_actions" /\ state.action_plan = NoPlan
    \/ /\ machine = "workflow"
       /\ \/ last.node = "alert_process" /\ ~wf.current_alert
          \/ last.node = "diagnosis" /\ ~wf.alert_analysis
          \/ last.node = "action_plan" /\ ~wf.diagnostic_result
          \/ last.node = "action_execute" /\ ~wf.action_plan

\* C21: a stage run without its required input adds no entry to errors and
\* the run goes on to the collection of information.
C21_MissingPreconditionIsRecoverable ==
    RanWithoutPrecondition
        => /\ Len(IF machine = "agent" THEN state.errors ELSE wf.errors) = last.errs
           /\ outcome = "running"
           /\ node \in {"collect_info", "intelligent_route"}

\* C22: when finalize has run with errors non-empty, the last message is
\* the reply of finalize carrying the status "completed with errors".
C22_FinalizeReportsErrors ==
    (machine = "agent" /\ last.node = "finalize" /\ last.tag = "ok"
       /\ state.errors # <<>>)
        => state.messages.lastKind = "final_completed_with_errors"

\* the requests of the Human-Interaction Gate that wait for the operator:
\* the dynamic request of a suspended node and the static breakpoint
OutstandingRequests ==
    (IF pending # "none" THEN 1 ELSE 0) + (IF outcome = "breakpoint" THEN 1 ELSE 0)

C24_ResumeIsIdempotent ==
    (machine = "agent" /\ hist.answer # "untraced") => ~hist.again

\* C25: a state that is exported and imported again is the state that was
\* exported, on every slot.
C25_ExportImportRoundTrip ==
    (machine = "call" /\ call.fn = "round_trip" /\ call.done) => call.ret = call.arg

\* the stage that follows stage n on the happy path
HappySuccessor(n) ==
    CASE n = "process_alert" -> "diagnose_issue"
      [] n = "diagnose_issue" -> "plan_actions"
      [] n = "plan_actions" -> "execute_actions"
      [] n = "execute_actions" -> "generate_report"
      [] n = "generate_report" -> "finalize"

\* stage n has just committed its result on the happy path: an alert is
\* being handled, the diagnosis is confident, the plan needs no approval,
\* every step succeeded, nothing failed and nobody was asked
HappyCommit(n) ==
    /\ machine = "agent" /\ cfg.enable_reporting
    /\ last.node = n /\ last.tag = "ok" /\ ~last.used /\ ~last.failed
    /\ state.errors = <<>> /\ state.alert_info /\ state.analysis_result
    /\ ~HasBackjumpRequest(state)
    /\ CASE n = "process_alert" -> TRUE
         [] n = "diagnose_issue" -> state.diagnostic_result = "high"
         [] n = "plan_actions" ->
               state.action_plan # NoPlan /\ ~RequiresExecutionApproval(state.action_plan)
         [] n = "execute_actions" -> state.execution_result.status = "success"
         [] n = "generate_report" -> state.report \notin {"none", "disabled"}

\* C26: on the happy path every stage hands over to the next stage of the
\* order process_alert, diagnose_issue, plan_actions, execute_actions,
\* generate_report, finalize, and the run is not aborted.
C26_HappyPathOrder ==
    \A n \in StageHandlers :
        HappyCommit(n) => /\ outcome \in {"running", "breakpoint"}
                          /\ node = HappySuccessor(n)

\* the items of a list
Items(l) == {l[i] : i \in 1..Len(l)}

\* C28: after two extractions the symptoms slot holds a list without
\* duplicates whose items are the stored symptoms and the symptoms of both
\* extractions, whatever the slot held and in whichever order the two
\* extractions are applied.
C28_SymptomUnion ==
    (machine = "call" /\ call.fn = "union_symptoms" /\ call.done
       /\ call.arg.first # <<>> /\ call.arg.second # <<>>)
        => /\ call.ret.kind = "list"
           /\ Items(call.ret.items) = Items(call.arg.slot.items)
                                        \cup Items(call.arg.first) \cup Items(call.arg.second)
           /\ Cardinality(Items(call.ret.items)) = Len(call.ret.items)

\* C27: a result slot that holds a value keeps that value in every step of
\* a run of the agent graph.
C27_ResultSlotsWrittenOnce ==
    [][machine = "agent" =>
         /\ state.analysis_result => state'.analysis_result
         /\ state.diagnostic_result # "none"
               => state'.diagnostic_result = state.diagnostic_result
         /\ state.action_plan # NoPlan => state'.action_plan = state.action_plan
         /\ state.execution_result # NoExecution
               => state'.execution_result = state.execution_result
         /\ state.report # "none" => state'.report = state.report]_vars

\* C29: no step of a run of the agent graph makes messages shorter.
C29_MessagesOnlyGrow ==
    [][machine = "agent" => state'.messages.len >= state.messages.len]_vars

\* a run has ended after its nodes appended four messages to the chat
C29_Witness ==
    machine = "agent" /\ outcome = "end" /\ state.messages.len >= 5

\* what the coroutine of agent a holds as its state once it has started
OwnState(a) == system.dicts[system.task[a].state]

\* C30: when several workflows run at once through the one StateManager of the
\* system, each works on a state of its own: no dict and no errors list is
\* read or written by the code of two agents, the states of two agents are
\* different objects with different errors lists, and the state an agent
\* holds carries the workflow id and the context that agent gave it
C30_InstancesAreIsolated ==
    machine = "system" =>
        /\ \A i \in DOMAIN system.dicts : Cardinality(system.dicts[i].by) <= 1
        /\ \A i \in DOMAIN system.lists : Cardinality(system.lists[i].by) <= 1
        /\ \A a \in DOMAIN system.task :
              system.task[a].pc # "created" =>
                  /\ OwnState(a).by = {a}
                  /\ system.lists[OwnState(a).errors].by = {a}
                  /\ OwnState(a).workflow_id = <<a, "incident_001">>
                  /\ OwnState(a).system_context = a
                  /\ \A b \in DOMAIN system.task \ {a} :
                        system.task[b].pc # "created" =>
                            /\ system.task[b].state # system.task[a].state
                            /\ OwnState(b).errors # OwnState(a).errors

\* three workflows are under way at once, one has retried after an error
\* while another has its analysis and no error
C30_Witness ==
    /\ machine = "system"
    /\ DOMAIN system.task = GatheredAgents
    /\ \A a \in GatheredAgents : system.task[a].pc = "running" /\ system.task[a].steps >= 2
    /\ \E a, b \in GatheredAgents :
          /\ a # b
          /\ OwnState(a).retry_count = 1
          /\ system.lists[OwnState(a).errors].items # <<>>
          /\ OwnState(b).alert_analysis
          /\ system.lists[OwnState(b).errors].items = <<>>
          /\ system.current_state \notin {system.task[a].state, system.task[b].state}

\* the keys a request function looks up, as the description of the gate
\* lists them
KnownKeys(f) ==
    {"response", "input", "value"}
    \cup (CASE f = "request_operator_input" -> {"content"}
            [] f = "request_execution_approval" -> {"decision"}
            [] f = "request_clarification" -> {"clarification"})

\* C31: each of the three request functions returns a string payload as it
\* is, the text under a known key of a dict, else the text under a known key
\* of a dict nested one level, else the string form of the whole payload.
C31_OrderedFallback ==
    (machine = "call" /\ call.fn = "request" /\ call.done) =>
        LET p == call.arg.p IN
        CASE p.t = "str" -> call.ret = p.v
          [] p.t \in {"dict", "nested"} ->
                 call.ret = IF p.k \in KnownKeys(call.arg.fn) /\ p.v # <<>>
                            THEN p.v ELSE T_repr
          [] OTHER -> TRUE

\* the slots the stages before stage n write, in the order of the pipeline
PredecessorSlots(n) ==
    CASE n = "process_alert" -> {"alert_info"}
      [] n = "diagnose_issue" -> {"alert_info", "analysis_result"}
      [] n = "plan_actions" -> {"alert_info", "analysis_result", "diagnostic_result"}
      [] n = "execute_actions" ->
             {"alert_info", "analysis_result", "diagnostic_result", "action_plan"}
      [] n = "generate_report" ->
             {"alert_info", "analysis_result", "diagnostic_result", "action_plan",
              "execution_result"}
      [] OTHER -> {}

\* the slot stage n writes
OutputSlot(n) ==
    CASE n = "process_alert" -> "analysis_result"
      [] n = "diagnose_issue" -> "diagnostic_result"
      [] n = "plan_actions" -> "action_plan"
      [] n = "execute_actions" -> "execution_result"
      [] n = "generate_report" -> "report"

\* C32: the fallback decision is retrieve_memory with pending memory queries,
\* else collect_info with pending collection queries or without an alert,
\* else the earliest stage whose output slot holds nothing, and END only when
\* every slot holds a value; a stage is never chosen while a slot of a stage
\* before it holds nothing.
C32_FallbackPriority ==
    (machine = "call" /\ call.fn = "fallback_decision" /\ call.done) =>
        LET st == call.arg
            n == call.ret
            stages == {"process_alert", "diagnose_issue", "plan_actions",
                       "execute_actions", "generate_report"}
        IN  /\ st.memory_queries <=> n = "retrieve_memory"
            /\ (~st.memory_queries /\ (st.info_collection_queries \/ st.alert_info # "set"))
                   <=> n = "collect_info"
            /\ n \in stages =>
                   /\ st[OutputSlot(n)] # "set"
                   /\ \A k \in PredecessorSlots(n) : st[k] = "set"
            /\ n = "END" =>
                   \A k \in PredecessorSlots("generate_report") \cup {"report"} : st[k] = "set"
            /\ n \in stages \cup {"retrieve_memory", "collect_info", "END"}

\* the fallback chose execute_actions for a state without a report
C32_Witness ==
    /\ machine = "call" /\ call.fn = "fallback_decision" /\ call.done
    /\ call.ret = "execute_actions"
    /\ call.arg.report = "missing"

\* C33: when diagnose_issue has passed its precondition (an alert, a symptom
\* or context is present), has invoked the diagnoser and has committed a
\* diagnostic_result while errors is empty, the next node is plan_actions.
C33_DiagnoseThenPlan ==
    (machine = "agent" /\ last.node = "diagnose_issue" /\ last.tag = "ok"
       /\ last.diagnoses >= 1
       /\ (state.alert_info \/ state.symptoms # {} \/ state.context # {})
       /\ state.diagnostic_result # "none" /\ state.errors = <<>>)
        => outcome = "running" /\ node = "plan_actions"

\* C34: when execute_actions has worked on a plan that requires approval and
\* the operator's reply, as normalised by request_execution_approval, is not
\* an explicit approval (it is empty, or any text other than "approved"), no
\* step of the plan is executed.
C34_ApprovalFailsClosed ==
    \A plan \in Plans :
        (/\ ExecutedOn(plan)
         /\ RequiresExecutionApproval(plan)
         /\ last.tag = "ok" /\ last.used
         /\ Lower(last.decision) # T_approved)
            => state.execution_result.executed_steps = <<>>

\* C35: with auto_execution switched off, whenever execute_actions has
\* committed an execution result for a plan, no step was executed and the
\* result says that manual approval is required.
C35_NoAutomaticExecution ==
    \A plan \in Plans :
        (ExecutedOn(plan) /\ ~cfg.auto_execution /\ last.tag = "ok"
           /\ state.execution_result # NoExecution)
            => /\ state.execution_result.executed_steps = <<>>
               /\ state.execution_result.status = "manual_approval_required"

\* C36: in every state of a run of the agent graph, the key returned by the
\* edge function of the node that has just executed is a key of the path
\* map registered for that node.
C36_AgentEdgesDefined ==
    (machine = "agent" /\ last.tag = "ok")
        => /\ last.key \in DOMAIN AgentPathMap(last.node)
           /\ outcome # "routing_error"

\* C37: in every state of a run of the workflow graph, the key returned by
\* the route function of the node that has just executed is a key of the
\* path map registered for that node.
C37_WorkflowEdgesDefined ==
    (machine = "workflow" /\ last.node # "none")
        => /\ last.key \in DOMAIN WorkflowPathMap(last.node)
           /\ outcome # "routing_error"

\* C38: a run of the workflow graph that has reached END came there from
\* error_handling, with workflow_status failed and the retry budget used up;
\* a run without an error has not reached END, also after report_generate
\* has set the status completed.
C38_EndOnlyAfterFailure ==
    machine = "workflow" =>
        /\ outcome = "end" =>
              /\ last.node = "error_handling"
              /\ wf.workflow_status = "failed"
              /\ wf.retry_count = wf.max_retries
              /\ wf.errors # <<>>
        /\ (last.node = "report_generate" /\ wf.errors = <<>>) =>
              /\ wf.workflow_status = "completed"
              /\ outcome # "end" /\ node = "feedback_learn"
        /\ (last.node = "feedback_learn" /\ wf.errors = <<>>) =>
              outcome # "end" /\ node = "monitor_collect"

\* a run has ended at END after its retries
C38_Witness ==
    /\ machine = "workflow" /\ outcome = "end"
    /\ wf.workflow_status = "failed" /\ wf.retry_count = DefaultMaxRetries

\* C39: at every node boundary of a run of the workflow graph validate_state
\* reports nothing: the stage alerting has an alert, diagnosis an analysis,
\* planning a diagnosis, execution a plan, and retry_count is at most
\* max_retries, also after error_handling has moved the stage back.
C39_StateStaysValid ==
    machine = "workflow" => validate_state(wf) = {}

\* error_handling has moved the stage back to planning for a retry
C39_Witness ==
    /\ machine = "workflow"
    /\ last.node = "error_handling"
    /\ wf.workflow_stage = "planning"
    /\ wf.retry_count >= 2
    /\ node = "action_plan"

\* C40: without a routing message, _route_condition returns process_alert
\* only for a state with an alert, without analysis_result, and with
\* diagnostic_result, action_plan and execution_result all present; for a
\* state that holds nothing but an alert it returns diagnose_issue.
C40_FallbackProcessAlertIsLast ==
    \A st \in SlotStates :
        RouteConditionReturned(st) =>
            /\ call.ret = "process_alert" =>
                  /\ st.alert_info /\ ~st.analysis_result
                  /\ st.diagnostic_result # "none"
                  /\ st.action_plan # NoPlan
                  /\ st.execution_result # NoExecution
            /\ (st.alert_info /\ ~st.analysis_result /\ st.diagnostic_result = "none"
                  /\ st.action_plan = NoPlan /\ st.execution_result = NoExecution)
                  => call.ret = "diagnose_issue"

\* the fallback was asked about a state that holds only an alert
C40_Witness ==
    /\ RouteConditionReturned(call.arg)
    /\ call.arg.alert_info /\ call.arg.symptoms = {} /\ ~call.arg.analysis_result
    /\ call.arg.diagnostic_result = "none"
    /\ call.arg.action_plan = NoPlan
    /\ call.arg.execution_result = NoExecution
    /\ call.ret = "diagnose_issue"

====
